---- MODULE Spec2Model ----
(***************************************************************************)
(* rosinterface_handler/diagnostic_subscriber.hpp                          *)
(*                                                                         *)
(* TopicDiagnosticWrapper, DiagnosedSubscriber and DiagnosedPublisher over *)
(* one diagnostic_updater::Updater.  The updater is a vector of tasks:     *)
(* add() appends without a uniqueness check, removeByName() erases the     *)
(* first task of that name.  The updater derives the task name from the    *)
(* string handed to TopicDiagnostic by a fixed suffix; that suffix is the  *)
(* same for every task and is left out of the names here.                  *)
(*                                                                         *)
(* Every handler is a function from world to world (the record World       *)
(* below), so that a handler can call another one as the code does; an     *)
(* action applies one handler and commits the result.  trace is the list   *)
(* of registry and transport events of the last handler, in order;         *)
(* balance is the number of add() calls minus the number of                *)
(* removeByName() calls made at the updater so far.                        *)
(***************************************************************************)
EXTENDS Integers, Sequences, FiniteSets, TLC

VARIABLES sub, pub, heap, tasks, trace, lastCall, sent, fault, balance

vars == <<sub, pub, heap, tasks, trace, lastCall, sent, fault, balance>>

\* ---------------------------------------------------------------- bounds
NumTopics == 2
MaxDelay == 1
MaxFreq == 1
MaxTicks == 1
MaxSent == 1

Topic(i) == "t" \o ToString(i)
Topics == {Topic(i) : i \in 1..NumTopics}
EmptyTopic == ""
Delays == 0..MaxDelay
Freqs == 0..MaxFreq

Subs == {"s1", "s2"}
Pubs == {"p1", "p2"}

\* ------------------------------------------------------ program constants
Null == 0
DefaultMinFreq == 0
DefaultMaxTimeDelay == 0
Infinity == "inf"

\* ----------------------------------------------------------------- world
World(x) ==
    [self |-> x, sub |-> sub, pub |-> pub, heap |-> heap, tasks |-> tasks,
     trace |-> <<>>, sent |-> sent, fault |-> fault, thrown |-> FALSE,
     balance |-> balance]

\* number of registry tasks that instance x registered
Live(w, x) == Cardinality({i \in DOMAIN w.tasks : w.tasks[i].by = x})

Log(w, ev, name) ==
    [w EXCEPT !.trace = Append(@, [ev |-> ev, name |-> name, live |-> Live(w, w.self)])]

Obj(w, id) == CHOOSE e \in w.heap : e.id = id

UsedIds(w) == {e.id : e \in w.heap} \cup {w.tasks[i].id : i \in DOMAIN w.tasks}

FreshId(w) == CHOOSE n \in 1..(Cardinality(UsedIds(w)) + 1) :
                 /\ n \notin UsedIds(w)
                 /\ \A m \in 1..(n - 1) : m \in UsedIds(w)

\* -------------------------------------------- diagnostic_updater::Updater
FirstNamed(seq, name) ==
    IF \E i \in DOMAIN seq : seq[i].name = name
    THEN CHOOSE i \in DOMAIN seq :
            /\ seq[i].name = name
            /\ \A j \in 1..(i - 1) : seq[j].name # name
    ELSE 0

RemoveAt(seq, i) == SubSeq(seq, 1, i - 1) \o SubSeq(seq, i + 1, Len(seq))

removeByName(w, name) ==
    LET i == FirstNamed(w.tasks, name)
    IN  Log([w EXCEPT !.tasks = IF i = 0 THEN @ ELSE RemoveAt(@, i),
                      !.balance = @ - 1],
            "removeByName", name)

add(w, id, name) ==
    Log([w EXCEPT !.tasks = Append(@, [id |-> id, name |-> name, by |-> w.self]),
                  !.balance = @ + 1],
        "add", name)

\* ------------------------------------------------- TopicDiagnosticWrapper
\* constructs diag_(name, diag, freq, stamp): the TopicDiagnostic registers
\* itself at the updater.  freq points at the creator's minFreq_/maxFreq_
\* fields (field by), stamp holds a copy of maxTimeDelay.
\* endpoint is the ros::Publisher a diagnostic_updater::DiagnosedPublisher
\* carries next to its TopicDiagnostic; a plain TopicDiagnostic has none.
\* variant: the parameter object holds the value minFreq_ has at creation
FrequencyStatusParam_byValue(w, x) ==
    [kind |-> "value", of |-> "",
     val |-> IF x \in Subs THEN w.sub[x].minFreq ELSE w.pub[x].minFreq]

\* FrequencyStatusParam(&minFreq_, &maxFreq_, 0): pointers to x's fields
FrequencyStatusParam(w, x) ==
    [kind |-> "pointer", of |-> x, val |-> 0]

\* the values *freq.min_freq_ can yield when the entry e is evaluated: the
\* field pointed at as it is now; the field of a destroyed object is a
\* dangling read, any value
FreqRead(w, e) ==
    IF e.freq.kind = "value" THEN {e.freq.val}
    ELSE LET x == e.freq.of
         IN  IF x \in Subs
             THEN IF w.sub[x].life = "alive" THEN {w.sub[x].minFreq} ELSE Freqs
             ELSE IF w.pub[x].life = "alive" THEN {w.pub[x].minFreq} ELSE Freqs

TopicDiagnostic(w, id, name, maxTimeDelay, endpoint) ==
    LET e == [id |-> id, name |-> name, by |-> w.self,
              freq |-> FrequencyStatusParam(w, w.self),
              maxTimeDelay |-> maxTimeDelay, ticks |-> 0, endpoint |-> endpoint]
    IN  add([w EXCEPT !.heap = @ \cup {e}], id, name)

TopicDiagnosticWrapper(w, id, name, maxTimeDelay) ==
    TopicDiagnostic(w, id, name, maxTimeDelay, EmptyTopic)

\* variant: the destructor leaves the task at the updater
TopicDiagnosticWrapper_dtor_noRemove(w, id) ==
    [w EXCEPT !.heap = @ \ {Obj(w, id)}]

TopicDiagnosticWrapper_dtor(w, id) ==
    LET e  == Obj(w, id)
        w1 == removeByName(w, e.name)
    IN  [w1 EXCEPT !.heap = @ \ {e}]

tick(w, id) ==
    LET e == Obj(w, id)
    IN  Log([w EXCEPT !.heap = (@ \ {e}) \cup {[e EXCEPT !.ticks = @ + 1]}],
            "tick", e.name)

\* ---------------------------------------------------- DiagnosedSubscriber
SubscriberName(name) == name \o " subscriber"

\* variant: the old wrapper is not released before the new one is made
initDiagnostic_noReset(w, s, name) ==
    IF name = EmptyTopic
    THEN [w EXCEPT !.sub[s].diagnostic = Null]
    ELSE LET id == FreshId(w)
         IN  [TopicDiagnosticWrapper(w, id, SubscriberName(name), w.sub[s].maxTimeDelay)
                EXCEPT !.sub[s].diagnostic = id]

\* variant: with no wrapper owned the name is removed at the updater anyway
initDiagnostic_alwaysRemove(w, s, name) ==
    LET d  == w.sub[s].diagnostic
        w1 == IF d # Null
              THEN [TopicDiagnosticWrapper_dtor(w, d) EXCEPT !.sub[s].diagnostic = Null]
              ELSE removeByName(w, SubscriberName(w.sub[s].topic))
    IN  IF name = EmptyTopic
        THEN w1
        ELSE LET id == FreshId(w1)
             IN  [TopicDiagnosticWrapper(w1, id, SubscriberName(name),
                                         w1.sub[s].maxTimeDelay)
                    EXCEPT !.sub[s].diagnostic = id]

initDiagnostic(w, s, name) ==
    LET d  == w.sub[s].diagnostic
        w1 == IF d # Null
              THEN [TopicDiagnosticWrapper_dtor(w, d) EXCEPT !.sub[s].diagnostic = Null]
              ELSE w
    IN  IF name = EmptyTopic
        THEN w1
        ELSE LET id == FreshId(w1)
             IN  [TopicDiagnosticWrapper(w1, id, SubscriberName(name),
                                         w1.sub[s].maxTimeDelay)
                    EXCEPT !.sub[s].diagnostic = id]

\* message_filters::Subscriber<M>, the default SubscriberBase.  It keeps the
\* subscribe options ops_ (topic) and the ros::Subscriber sub_ (connected):
\*   subscribe(nh, topic, ...)  unsubscribe(); for a non-empty topic store
\*                              it in ops_ and sub_ = nh.subscribe(ops_)
\*   subscribe()                unsubscribe(); sub_ = nh_.subscribe(ops_)
\*                              when ops_.topic is not empty
\*   unsubscribe()              sub_.shutdown(); ops_ is kept
\*   getTopic()                 ops_.topic
\* its constructor with (nh, topic, queueSize) calls subscribe(nh, topic, ...)
getTopic(w, s) == w.sub[s].topic

Subscriber_unsubscribe(w, s) ==
    Log([w EXCEPT !.sub[s].connected = FALSE, !.sub[s].via = "none"],
        "shutdown", w.sub[s].topic)

\* variant: the entry is released before the transport is shut down
unsubscribe_entryFirst(w, s) ==
    Subscriber_unsubscribe(initDiagnostic(w, s, EmptyTopic), s)

\* variant: an instance that owns no entry gets one for the known topic
unsubscribe_flip(w, s) ==
    initDiagnostic(Subscriber_unsubscribe(w, s), s,
                   IF w.sub[s].diagnostic = Null THEN getTopic(w, s) ELSE EmptyTopic)

unsubscribe(w, s) ==
    initDiagnostic(Subscriber_unsubscribe(w, s), s, EmptyTopic)

\* nh.subscribe(ops_) either connects or throws (ok = FALSE)
Subscriber_connect(w, s, ok) ==
    IF ok
    THEN Log([w EXCEPT !.sub[s].connected = TRUE], "connect", w.sub[s].topic)
    ELSE Log([w EXCEPT !.thrown = TRUE], "throw", w.sub[s].topic)

\* unsubscribe() is virtual: it reaches DiagnosedSubscriber::unsubscribe
\* once the derived object exists (virt), the base one during construction
Subscriber_subscribe(w, s, topic, ok, virt) ==
    LET w1 == IF virt THEN unsubscribe(w, s) ELSE Subscriber_unsubscribe(w, s)
    IN  IF topic = EmptyTopic
        THEN w1
        ELSE LET w2 == Subscriber_connect([w1 EXCEPT !.sub[s].topic = topic], s, ok)
             IN  IF ok
                 THEN [w2 EXCEPT !.sub[s].via = IF virt THEN "subscribe" ELSE "constructor"]
                 ELSE w2

Subscriber_resubscribe(w, s, ok) ==
    LET w1 == unsubscribe(w, s)
    IN  IF w1.sub[s].topic = EmptyTopic
        THEN w1
        ELSE LET w2 == Subscriber_connect(w1, s, ok)
             IN  IF ok THEN [w2 EXCEPT !.sub[s].via = "subscribe"] ELSE w2

\* variant: the entry is keyed by the topic known before the call
subscribe_staleTopic(w, s, topic, ok) ==
    LET w1 == Subscriber_subscribe(w, s, topic, ok, TRUE)
    IN  IF w1.thrown THEN w1 ELSE initDiagnostic(w1, s, getTopic(w, s))

subscribe(w, s, topic, ok) ==
    LET w1 == Subscriber_subscribe(w, s, topic, ok, TRUE)
    IN  IF w1.thrown THEN w1 ELSE initDiagnostic(w1, s, topic)

resubscribe(w, s, ok) ==
    LET w1 == Subscriber_resubscribe(w, s, ok)
    IN  IF w1.thrown THEN w1 ELSE initDiagnostic(w1, s, getTopic(w1, s))

\* variant: minFrequency rebuilds the entry the way maxTimeDelay does
DiagnosedSubscriber_minFrequency_rebuild(w, s, v) ==
    LET w1 == [w EXCEPT !.sub[s].minFreq = v]
    IN  initDiagnostic(w1, s, getTopic(w1, s))

DiagnosedSubscriber_minFrequency(w, s, v) ==
    [w EXCEPT !.sub[s].minFreq = v]

\* variant: maxTimeDelay stores the value and leaves the entry as it is
DiagnosedSubscriber_maxTimeDelay_noRebuild(w, s, v) ==
    [w EXCEPT !.sub[s].maxTimeDelay = v]

DiagnosedSubscriber_maxTimeDelay(w, s, v) ==
    LET w1 == [w EXCEPT !.sub[s].maxTimeDelay = v]
    IN  initDiagnostic(w1, s, getTopic(w1, s))

\* variant: the callback does not tick the entry
onMessage_noTick(w, s, outcome) ==
    IF w.sub[s].diagnostic # Null
    THEN w
    ELSE Log([w EXCEPT !.fault = outcome], "null", w.sub[s].topic)

\* onMessage dereferences diagnostic_ unchecked; on a null pointer the
\* behaviour is undefined: the process dies, or runs on with no tick
onMessage(w, s, outcome) ==
    IF w.sub[s].diagnostic # Null
    THEN tick(w, w.sub[s].diagnostic)
    ELSE Log([w EXCEPT !.fault = outcome], "null", w.sub[s].topic)

\* via is a history field: the call that made the transport subscription
\* now connected ("none" while not connected)
NoSubscriber ==
    [life |-> "none", topic |-> EmptyTopic, connected |-> FALSE,
     minFreq |-> DefaultMinFreq, maxFreq |-> Infinity,
     maxTimeDelay |-> DefaultMaxTimeDelay, diagnostic |-> Null,
     via |-> "none"]

NewSubscriber ==
    [life |-> "alive", topic |-> EmptyTopic, connected |-> FALSE,
     minFreq |-> DefaultMinFreq, maxFreq |-> Infinity,
     maxTimeDelay |-> DefaultMaxTimeDelay, diagnostic |-> Null,
     via |-> "none"]

\* DiagnosedSubscriber(updater, args...): args empty (forwarded = FALSE) or
\* (nh, topic, queueSize), which makes the base constructor subscribe
DiagnosedSubscriber(w, s, forwarded, topic, ok) ==
    LET w1 == [w EXCEPT !.sub[s] = NewSubscriber]
        w2 == IF forwarded THEN Subscriber_subscribe(w1, s, topic, ok, FALSE) ELSE w1
    IN  IF w2.thrown THEN [w2 EXCEPT !.sub[s] = w.sub[s]] ELSE w2

DiagnosedSubscriber_dtor(w, s) ==
    LET d  == w.sub[s].diagnostic
        w1 == IF d # Null
              THEN [TopicDiagnosticWrapper_dtor(w, d) EXCEPT !.sub[s].diagnostic = Null]
              ELSE w
        w2 == Subscriber_unsubscribe(w1, s)
    IN  [w2 EXCEPT !.sub[s] = [NoSubscriber EXCEPT !.life = "dead"]]

\* ----------------------------------------------------- DiagnosedPublisher
\* assigned is a history field: operator= has been called on the object
NoPublisher ==
    [life |-> "none", minFreq |-> DefaultMinFreq, maxFreq |-> Infinity,
     maxTimeDelay |-> DefaultMaxTimeDelay, publisher |-> Null,
     assigned |-> FALSE]

DiagnosedPublisher(w, p) ==
    [w EXCEPT !.pub[p] = [NoPublisher EXCEPT !.life = "alive"]]

\* the wrappers that share the Publisher object id through publisher_
Holders(w, id) == {q \in Pubs : w.pub[q].life = "alive" /\ w.pub[q].publisher = id}

\* variant: the shared_ptr is made without the custom deleter
deleter_noRemove(w, id) ==
    [w EXCEPT !.heap = @ \ {Obj(w, id)}]

\* the deleter handed to the shared_ptr: name was captured at creation
deleter(w, id) ==
    LET e  == Obj(w, id)
        w1 == removeByName(w, e.name)
    IN  [w1 EXCEPT !.heap = @ \ {e}]

\* publisher_.reset(): the deleter runs when the last reference goes
PublisherPtr_reset(w, p) ==
    LET id == w.pub[p].publisher
        w1 == [w EXCEPT !.pub[p].publisher = Null]
    IN  IF id # Null /\ Holders(w1, id) = {} THEN deleter(w1, id) ELSE w1

\* variant: publisher_ is assigned without the reset in front, so that the
\* new Publisher exists before the old one is released
init_createFirst(w, p, endpoint, ok) ==
    IF ~ok
    THEN Log([w EXCEPT !.thrown = TRUE], "throw", endpoint)
    ELSE LET id  == FreshId(w)
             old == w.pub[p].publisher
             w1  == [TopicDiagnostic(w, id, endpoint, w.pub[p].maxTimeDelay, endpoint)
                       EXCEPT !.pub[p].publisher = id]
         IN  IF old # Null /\ Holders(w1, old) = {} THEN deleter(w1, old) ELSE w1

\* new Publisher(publisher, *updater_, freq, stamp) names its task after
\* publisher.getTopic(); ok = FALSE is the allocation throwing
\* variant: init on a bound publisher only releases the old Publisher
init_resetReturns(w, p, endpoint, ok) ==
    IF w.pub[p].publisher # Null
    THEN PublisherPtr_reset(w, p)
    ELSE IF ~ok
         THEN Log([w EXCEPT !.thrown = TRUE], "throw", endpoint)
         ELSE LET id == FreshId(w)
              IN  [TopicDiagnostic(w, id, endpoint, w.pub[p].maxTimeDelay, endpoint)
                     EXCEPT !.pub[p].publisher = id]

init(w, p, endpoint, ok) ==
    LET w1 == IF w.pub[p].publisher # Null THEN PublisherPtr_reset(w, p) ELSE w
    IN  IF ~ok
        THEN Log([w1 EXCEPT !.thrown = TRUE], "throw", endpoint)
        ELSE LET id == FreshId(w1)
             IN  [TopicDiagnostic(w1, id, endpoint, w1.pub[p].maxTimeDelay, endpoint)
                    EXCEPT !.pub[p].publisher = id]

assign(w, p, endpoint, ok) ==
    init([w EXCEPT !.pub[p].assigned = TRUE], p, endpoint, ok)

\* publisher_->publish(message): tick(message.header.stamp), then send
publish(w, p) ==
    IF w.pub[p].publisher # Null
    THEN LET w1 == tick(w, w.pub[p].publisher)
         IN  Log([w1 EXCEPT !.sent[p] = @ + 1], "send", Obj(w1, w.pub[p].publisher).endpoint)
    ELSE w

DiagnosedPublisher_minFrequency(w, p, v) ==
    [w EXCEPT !.pub[p].minFreq = v]

getPublisher(w, p) == Obj(w, w.pub[p].publisher).endpoint

\* variant: the entry is rebuilt whether or not an endpoint is bound
DiagnosedPublisher_maxTimeDelay_always(w, p, v, ok) ==
    LET w1 == [w EXCEPT !.pub[p].maxTimeDelay = v]
    IN  init(w1, p, IF w1.pub[p].publisher # Null
                    THEN Obj(w1, w1.pub[p].publisher).endpoint
                    ELSE EmptyTopic, ok)

\* variant: the entry is rebuilt only when the value changes
DiagnosedPublisher_maxTimeDelay_ifChanged(w, p, v, ok) ==
    LET w1 == [w EXCEPT !.pub[p].maxTimeDelay = v]
    IN  IF w1.pub[p].publisher # Null /\ v # w.pub[p].maxTimeDelay
        THEN init(w1, p, Obj(w1, w1.pub[p].publisher).endpoint, ok)
        ELSE w1

\* variant: the endpoint is read after the old Publisher object is released
DiagnosedPublisher_maxTimeDelay_lostEndpoint(w, p, v, ok) ==
    LET w1 == [w EXCEPT !.pub[p].maxTimeDelay = v]
    IN  IF w1.pub[p].publisher # Null
        THEN init(w1, p, EmptyTopic, ok)
        ELSE w1

DiagnosedPublisher_maxTimeDelay(w, p, v, ok) ==
    LET w1 == [w EXCEPT !.pub[p].maxTimeDelay = v]
    IN  IF w1.pub[p].publisher # Null
        THEN init(w1, p, getPublisher(w1, p), ok)
        ELSE w1

publisher(w, p) ==
    IF w.pub[p].publisher # Null THEN getPublisher(w, p) ELSE EmptyTopic

DiagnosedPublisher_getTopic(w, p) == publisher(w, p)

\* implicit copy constructor: every member copied, publisher_ shared
DiagnosedPublisher_copy(w, q, p) ==
    [w EXCEPT !.pub[q] = w.pub[p]]

\* implicit destructor: publisher_ released
DiagnosedPublisher_dtor(w, p) ==
    LET w1 == PublisherPtr_reset(w, p)
    IN  [w1 EXCEPT !.pub[p] = [NoPublisher EXCEPT !.life = "dead"]]

\* ---------------------------------------------------------------- actions
Running == fault # "crashed"

EntryName(w, id) == IF id = Null THEN EmptyTopic ELSE Obj(w, id).name

\* the last call: its operation, object and arguments, whether it returned
\* (ok) or threw, whether the object held an entry before (had), that
\* entry's name, for a setter the value stored before (prev), and whether
\* the call before was the same operation on the same object (again)
Call(op, x, topic, v, ok, id, prev) ==
    [op |-> op, self |-> x, topic |-> topic, v |-> v, ok |-> ok,
     had |-> id # Null, name |-> EntryName(World(x), id), prev |-> prev,
     again |-> (lastCall.op = op /\ lastCall.self = x)]

Commit(w, call) ==
    /\ sub' = w.sub
    /\ pub' = w.pub
    /\ heap' = w.heap
    /\ tasks' = w.tasks
    /\ trace' = w.trace
    /\ sent' = w.sent
    /\ fault' = w.fault
    /\ balance' = w.balance
    /\ lastCall' = call

SubAlive(s) == Running /\ sub[s].life = "alive"
PubAlive(p) == Running /\ pub[p].life = "alive"

ConstructSubscriber(s) ==
    /\ Running
    /\ sub[s].life = "none"
    /\ \E forwarded \in BOOLEAN, topic \in Topics \cup {EmptyTopic}, ok \in BOOLEAN :
          /\ ~forwarded => (topic = EmptyTopic /\ ok)
          /\ topic = EmptyTopic => ok
          /\ Commit(DiagnosedSubscriber(World(s), s, forwarded, topic, ok),
                    Call(IF forwarded THEN "Subscriber(args)" ELSE "Subscriber()",
                         s, topic, 0, ok, Null, 0))

Subscribe(s) ==
    /\ SubAlive(s)
    /\ \E topic \in Topics \cup {EmptyTopic}, ok \in BOOLEAN :
          /\ topic = EmptyTopic => ok
          /\ Commit(subscribe(World(s), s, topic, ok),
                    Call("subscribe", s, topic, 0, ok, sub[s].diagnostic, 0))

Resubscribe(s) ==
    /\ SubAlive(s)
    /\ \E ok \in BOOLEAN :
          /\ sub[s].topic = EmptyTopic => ok
          /\ Commit(resubscribe(World(s), s, ok),
                    Call("resubscribe", s, sub[s].topic, 0, ok, sub[s].diagnostic, 0))

Unsubscribe(s) ==
    /\ SubAlive(s)
    /\ Commit(unsubscribe(World(s), s),
              Call("unsubscribe", s, EmptyTopic, 0, TRUE, sub[s].diagnostic, 0))

SubMinFrequency(s) ==
    /\ SubAlive(s)
    /\ \E v \in Freqs :
          Commit(DiagnosedSubscriber_minFrequency(World(s), s, v),
                 Call("sub.minFrequency", s, EmptyTopic, v, TRUE, sub[s].diagnostic, sub[s].minFreq))

SubMaxTimeDelay(s) ==
    /\ SubAlive(s)
    /\ \E v \in Delays :
          Commit(DiagnosedSubscriber_maxTimeDelay(World(s), s, v),
                 Call("sub.maxTimeDelay", s, EmptyTopic, v, TRUE, sub[s].diagnostic, sub[s].maxTimeDelay))

\* the transport delivers a message: only a connected subscription gets one
Deliver(s) ==
    /\ SubAlive(s)
    /\ sub[s].connected
    /\ sub[s].diagnostic # Null => Obj(World(s), sub[s].diagnostic).ticks < MaxTicks
    /\ \E outcome \in {"crashed", "survived"} :
          /\ sub[s].diagnostic # Null => outcome = "survived"
          /\ Commit(onMessage(World(s), s, outcome),
                    Call("onMessage", s, sub[s].topic, 0, TRUE, sub[s].diagnostic, 0))

DestroySubscriber(s) ==
    /\ SubAlive(s)
    /\ Commit(DiagnosedSubscriber_dtor(World(s), s),
              Call("~Subscriber", s, EmptyTopic, 0, TRUE, sub[s].diagnostic, 0))

ConstructPublisher(p) ==
    /\ Running
    /\ pub[p].life = "none"
    /\ Commit(DiagnosedPublisher(World(p), p),
              Call("Publisher()", p, EmptyTopic, 0, TRUE, Null, 0))

Bind(p) ==
    /\ PubAlive(p)
    /\ \E endpoint \in Topics, ok \in BOOLEAN :
          Commit(assign(World(p), p, endpoint, ok),
                 Call("bind", p, endpoint, 0, ok, pub[p].publisher, 0))

Publish(p) ==
    /\ PubAlive(p)
    /\ pub[p].publisher # Null =>
          /\ Obj(World(p), pub[p].publisher).ticks < MaxTicks
          /\ sent[p] < MaxSent
    /\ Commit(publish(World(p), p),
              Call("publish", p, EmptyTopic, 0, TRUE, pub[p].publisher, 0))

PubMinFrequency(p) ==
    /\ PubAlive(p)
    /\ \E v \in Freqs :
          Commit(DiagnosedPublisher_minFrequency(World(p), p, v),
                 Call("pub.minFrequency", p, EmptyTopic, v, TRUE, pub[p].publisher, pub[p].minFreq))

PubMaxTimeDelay(p) ==
    /\ PubAlive(p)
    /\ \E v \in Delays, ok \in BOOLEAN :
          /\ pub[p].publisher = Null => ok
          /\ Commit(DiagnosedPublisher_maxTimeDelay(World(p), p, v, ok),
                    Call("pub.maxTimeDelay", p, EmptyTopic, v, ok, pub[p].publisher, pub[p].maxTimeDelay))

CopyPublisher(q, p) ==
    /\ PubAlive(p)
    /\ pub[q].life = "none"
    /\ Commit(DiagnosedPublisher_copy(World(q), q, p),
              Call("Publisher(copy)", q, EmptyTopic, 0, TRUE, pub[p].publisher, 0))

DestroyPublisher(p) ==
    /\ PubAlive(p)
    /\ Commit(DiagnosedPublisher_dtor(World(p), p),
              Call("~Publisher", p, EmptyTopic, 0, TRUE, pub[p].publisher, 0))

\* ---------------------------------------------------------- specifications
Init ==
    /\ sub = [s \in Subs |-> NoSubscriber]
    /\ pub = [p \in Pubs |-> NoPublisher]
    /\ heap = {}
    /\ tasks = <<>>
    /\ trace = <<>>
    /\ lastCall = [op |-> "none", self |-> "", topic |-> EmptyTopic, v |-> 0,
                   ok |-> TRUE, had |-> FALSE, name |-> EmptyTopic, prev |-> 0,
                   again |-> FALSE]
    /\ sent = [p \in Pubs |-> 0]
    /\ fault = "none"
    /\ balance = 0

\* one wrapper object at the updater: a program constructs either one
\* DiagnosedSubscriber or one DiagnosedPublisher and then uses it
Next ==
    \/ pub["p1"].life = "none" /\ ConstructSubscriber("s1")
    \/ Subscribe("s1")
    \/ Resubscribe("s1")
    \/ Unsubscribe("s1")
    \/ SubMinFrequency("s1")
    \/ SubMaxTimeDelay("s1")
    \/ Deliver("s1")
    \/ DestroySubscriber("s1")
    \/ sub["s1"].life = "none" /\ ConstructPublisher("p1")
    \/ Bind("p1")
    \/ Publish("p1")
    \/ PubMinFrequency("p1")
    \/ PubMaxTimeDelay("p1")
    \/ DestroyPublisher("p1")

Spec == Init /\ [][Next]_vars

\* two DiagnosedSubscribers at one updater
NextSubs ==
    \E s \in Subs :
        \/ ConstructSubscriber(s)
        \/ Subscribe(s)
        \/ Resubscribe(s)
        \/ Unsubscribe(s)
        \/ SubMaxTimeDelay(s)
        \/ Deliver(s)
        \/ DestroySubscriber(s)

SpecSubs == Init /\ [][NextSubs]_vars

\* two DiagnosedPublishers at one updater, the second a copy of the first
NextPubs ==
    \/ ConstructPublisher("p1")
    \/ CopyPublisher("p2", "p1")
    \/ \E p \in Pubs :
        \/ Bind(p)
        \/ Publish(p)
        \/ PubMinFrequency(p)
        \/ PubMaxTimeDelay(p)
        \/ DestroyPublisher(p)

SpecPubs == Init /\ [][NextPubs]_vars

\* ------------------------------------------------------------- properties
SubscriberNames == {SubscriberName(t) : t \in Topics}

TasksBy(x) == {i \in DOMAIN tasks : tasks[i].by = x}

TasksNamed(n) == {i \in DOMAIN tasks : tasks[i].name = n}

\* C1: between calls the registry holds at most one entry that the
\* DiagnosedSubscriber created (an entry keyed "<topic> subscriber").
C1_AtMostOneSubscriberEntry ==
    \A s \in Subs :
        Cardinality({i \in TasksBy(s) : tasks[i].name \in SubscriberNames}) <= 1

\* subscribe(nh, t2) has just replaced the entry of another topic
C1_Witness ==
    /\ lastCall.op = "subscribe"
    /\ lastCall.had
    /\ sub[lastCall.self].diagnostic # Null
    /\ lastCall.name # SubscriberName(lastCall.topic)
    /\ Cardinality(TasksBy(lastCall.self)) = 1

\* C2: once unsubscribe() has returned, a threshold setter called next
\* leaves the instance without an entry (entry owned iff active).
C2_NoEntryAfterUnsubscribe ==
    [][\A s \in Subs :
          (/\ lastCall.op = "unsubscribe"
           /\ lastCall.self = s
           /\ lastCall'.self = s
           /\ lastCall'.op \in {"sub.minFrequency", "sub.maxTimeDelay"})
          => sub'[s].diagnostic = Null]_vars

\* C3: an owned entry is keyed "<current topic> subscriber", the registry
\* holds exactly one task of that name and none under another subscriber
\* key (no stale key after a topic change).
C3_KeyMatchesTopic ==
    \A s \in Subs :
        sub[s].diagnostic # Null =>
            /\ EntryName(World(s), sub[s].diagnostic) = SubscriberName(getTopic(World(s), s))
            /\ Cardinality(TasksNamed(SubscriberName(getTopic(World(s), s)))) = 1
            /\ \A i \in TasksBy(s) : tasks[i].name = SubscriberName(getTopic(World(s), s))

\* subscribe(nh, t1) followed by subscribe(nh, t2), t1 # t2
C3_Witness ==
    /\ lastCall.op = "subscribe"
    /\ lastCall.ok
    /\ lastCall.name \in SubscriberNames
    /\ lastCall.name # SubscriberName(lastCall.topic)
    /\ EntryName(World(lastCall.self), sub[lastCall.self].diagnostic) = SubscriberName(lastCall.topic)
    /\ TasksNamed(lastCall.name) = {}

\* C4: after the destruction of a DiagnosedSubscriber or DiagnosedPublisher
\* the registry holds no entry that the object created.
C4_DestroyedLeavesNothing ==
    /\ \A s \in Subs : sub[s].life = "dead" => TasksBy(s) = {}
    /\ \A p \in Pubs : pub[p].life = "dead" => TasksBy(p) = {}

\* an object that owned an entry has just been destroyed
C4_Witness ==
    /\ lastCall.op \in {"~Subscriber", "~Publisher"}
    /\ lastCall.had
    /\ lastCall.name # EmptyTopic
    /\ Len(trace) >= 1
    /\ trace[1] = [ev |-> "removeByName", name |-> lastCall.name, live |-> 0]

\* C5: for every live entry the registry holds exactly one task of its
\* name, and no two live entries share a name, also with several wrappers
\* at one registry.
C5_UniqueNames ==
    /\ \A e \in heap : Cardinality(TasksNamed(e.name)) = 1
    /\ \A e1, e2 \in heap : e1.name = e2.name => e1 = e2

Events(tr) == [i \in DOMAIN tr |-> <<tr[i].ev, tr[i].name>>]

Transport == {"shutdown", "connect", "throw"}

\* C6: operator= releases the old entry before it creates the new one: no
\* step of the call and no state after it, a failed creation included, has
\* two registry entries of the publisher.
C6_RebindNeverTwoLive ==
    \A p \in Pubs :
        /\ Cardinality(TasksBy(p)) <= 1
        /\ (lastCall.op = "bind" /\ lastCall.self = p) =>
              /\ \A i \in DOMAIN trace : trace[i].live <= 1
              /\ lastCall.had =>
                    /\ trace[1].ev = "removeByName"
                    /\ trace[1].name = lastCall.name
                    /\ trace[1].live = 0
              /\ ~lastCall.ok => (TasksBy(p) = {} /\ pub[p].publisher = Null)

\* a bound publisher has just been bound to another endpoint
C6_Witness ==
    /\ lastCall.op = "bind"
    /\ lastCall.had
    /\ lastCall.ok
    /\ lastCall.name # lastCall.topic
    /\ Len(trace) = 2

\* C7 as stated: in subscribe(nh, topic), subscribe() and unsubscribe() the
\* old entry is destroyed first, the transport acts next, the new entry is
\* created last, and two entries are never live.
C7_DestroyThenTransport ==
    lastCall.op \in {"subscribe", "resubscribe", "unsubscribe"} =>
        /\ \A i, j \in DOMAIN trace :
              (trace[i].ev = "removeByName" /\ trace[j].ev \in Transport) => i < j
        /\ \A i, j \in DOMAIN trace :
              (trace[i].ev = "add" /\ trace[j].ev \in Transport) => j < i
        /\ \A i \in DOMAIN trace : trace[i].live <= 1

\* C7 amended: the transport acts first.  The old subscription is shut
\* down, then the old entry is destroyed, then the new subscription is
\* made, then the new entry is created; a throwing transport leaves the old
\* entry removed and none created; two entries are never live.
C7_TransportThenDestroy ==
    lastCall.op \in {"subscribe", "resubscribe", "unsubscribe"} =>
        /\ trace # <<>> /\ trace[1].ev = "shutdown"
        /\ \A i, j \in DOMAIN trace :
              (trace[i].ev = "removeByName" /\ trace[j].ev \in {"connect", "throw"}) => i < j
        /\ \A i \in DOMAIN trace : trace[i].ev = "add" => i = Len(trace)
        /\ \A i \in DOMAIN trace : trace[i].live <= 1
        /\ lastCall.had =>
              \E i \in DOMAIN trace :
                  trace[i].ev = "removeByName" /\ trace[i].name = lastCall.name
        /\ ~lastCall.ok =>
              /\ \A i \in DOMAIN trace : trace[i].ev # "add"
              /\ sub[lastCall.self].diagnostic = Null
              /\ TasksBy(lastCall.self) = {}

\* subscribe(nh, topic) on a subscriber owning an entry, the transport throws
C7_Witness ==
    /\ lastCall.op = "subscribe"
    /\ lastCall.had
    /\ ~lastCall.ok
    /\ Len(trace) = 3

\* C8: onMessage never dereferences an absent entry.
C8_NoNullDereference == fault = "none"

\* C9: on a DiagnosedPublisher that was never bound, publish, minFrequency
\* and maxTimeDelay raise nothing, send nothing and touch no registry entry.
C9_UnboundIsInert ==
    \A p \in Pubs :
        (pub[p].life = "alive" /\ ~pub[p].assigned) =>
            /\ pub[p].publisher = Null
            /\ TasksBy(p) = {}
            /\ sent[p] = 0
            /\ (lastCall.self = p /\ lastCall.op \in {"publish", "pub.minFrequency", "pub.maxTimeDelay"})
                  => (trace = <<>> /\ lastCall.ok)

\* publish on a never bound publisher whose two bounds have been set
C9_Witness ==
    /\ lastCall.op = "publish"
    /\ ~pub[lastCall.self].assigned
    /\ pub[lastCall.self].maxTimeDelay # DefaultMaxTimeDelay
    /\ pub[lastCall.self].minFreq # DefaultMinFreq

\* C10: a returning maxTimeDelay(v) on a bound DiagnosedPublisher removes the
\* entry by name and registers it again under the same key, once each, also
\* for v equal to the stored value; the new entry's staleness bound is v.
C10_MaxTimeDelayRebuilds ==
    (lastCall.op = "pub.maxTimeDelay" /\ lastCall.had /\ lastCall.ok) =>
        /\ Events(trace) = << <<"removeByName", lastCall.name>>, <<"add", lastCall.name>> >>
        /\ pub[lastCall.self].publisher # Null
        /\ Obj(World(lastCall.self), pub[lastCall.self].publisher).name = lastCall.name
        /\ Obj(World(lastCall.self), pub[lastCall.self].publisher).maxTimeDelay = lastCall.v
        /\ Cardinality(TasksNamed(lastCall.name)) = 1

\* maxTimeDelay(v) on a bound publisher with v the value already stored
C10_Witness ==
    /\ lastCall.op = "pub.maxTimeDelay"
    /\ lastCall.had
    /\ lastCall.ok
    /\ lastCall.v = lastCall.prev
    /\ lastCall.v # DefaultMaxTimeDelay

\* C11: after any bind, publish, minFrequency and maxTimeDelay calls the
\* registry holds an entry of the DiagnosedPublisher iff an endpoint is
\* bound, and then it is the task of the Publisher object bound.
C11_EntryIffBound ==
    \A p \in Pubs :
        pub[p].life = "alive" =>
            /\ pub[p].publisher # Null <=> TasksBy(p) # {}
            /\ pub[p].publisher # Null =>
                  \A i \in TasksBy(p) :
                      /\ tasks[i].id = pub[p].publisher
                      /\ tasks[i].name = getPublisher(World(p), p)

\* a bound publisher that has published, and one unbound again by a
\* binding whose creation threw, are both reached; this is the first
C11_Witness ==
    /\ lastCall.op = "publish"
    /\ lastCall.had
    /\ pub[lastCall.self].assigned
    /\ sent[lastCall.self] >= 1
    /\ TasksBy(lastCall.self) # {}

\* C12: every live entry is owned by exactly one wrapper: a bound
\* DiagnosedPublisher, an object copied from one included, is the only
\* holder of its Publisher object, and the registry holds one task of its
\* name.
C12_ExclusiveOwner ==
    \A p \in Pubs :
        (pub[p].life = "alive" /\ pub[p].publisher # Null) =>
            /\ Holders(World(p), pub[p].publisher) = {p}
            /\ Cardinality(TasksNamed(EntryName(World(p), pub[p].publisher))) = 1

Count(ev) == Cardinality({i \in DOMAIN trace : trace[i].ev = ev})

\* C13: every registered entry is removed by exactly one removeByName call,
\* made by its owner: each removeByName call removes a task (the calls so
\* far balance the tasks registered), a call on an object that owns no
\* entry makes none, a call makes at most one and for the entry owned, and
\* once the object is destroyed as many removeByName as add calls were made.
C13_RemoveOncePerEntry ==
    /\ balance = Len(tasks)
    /\ ~lastCall.had => Count("removeByName") = 0
    /\ Count("removeByName") <= 1
    /\ \A i \in DOMAIN trace :
          trace[i].ev = "removeByName" =>
              (trace[i].name = lastCall.name /\ trace[i].live = 0)
    /\ lastCall.op \in {"~Subscriber", "~Publisher"} => balance = 0

\* an object that owned an entry is destroyed: one removal, calls balanced
C13_Witness ==
    /\ lastCall.op \in {"~Subscriber", "~Publisher"}
    /\ lastCall.had
    /\ Count("removeByName") = 1
    /\ balance = 0

\* C14: unsubscribe() called right after unsubscribe() on the same
\* DiagnosedSubscriber changes neither the registry nor the wrapper.
C14_UnsubscribeIdempotent ==
    [][(/\ lastCall.op = "unsubscribe"
        /\ lastCall'.op = "unsubscribe"
        /\ lastCall'.self = lastCall.self)
       => (/\ tasks' = tasks
           /\ heap' = heap
           /\ sub' = sub
           /\ balance' = balance)]_vars

\* the second of two unsubscribe() calls on a subscriber that had been
\* subscribed to a topic and had owned an entry before the first
C14_Witness ==
    /\ lastCall.op = "unsubscribe"
    /\ lastCall.again
    /\ sub[lastCall.self].topic # EmptyTopic
    /\ sub[lastCall.self].maxTimeDelay # DefaultMaxTimeDelay
    /\ ~lastCall.had

\* C15: minFrequency(v) on a DiagnosedSubscriber or DiagnosedPublisher
\* stores v and nothing else: no removeByName and no add call, the entry,
\* its key, the subscription or endpoint and maxTimeDelay are unchanged.
C15_MinFrequencyOnlyStores ==
    [][lastCall'.op \in {"sub.minFrequency", "pub.minFrequency"} =>
          /\ trace' = <<>>
          /\ tasks' = tasks
          /\ heap' = heap
          /\ balance' = balance
          /\ sent' = sent
          /\ fault' = fault
          /\ sub' = IF lastCall'.op = "sub.minFrequency"
                    THEN [sub EXCEPT ![lastCall'.self].minFreq = lastCall'.v]
                    ELSE sub
          /\ pub' = IF lastCall'.op = "pub.minFrequency"
                    THEN [pub EXCEPT ![lastCall'.self].minFreq = lastCall'.v]
                    ELSE pub]_vars

\* minFrequency(v) with a new value on an object that owns an entry
C15_Witness ==
    /\ lastCall.op \in {"sub.minFrequency", "pub.minFrequency"}
    /\ lastCall.had
    /\ lastCall.v # lastCall.prev
    /\ tasks # <<>>

\* C16: a returning maxTimeDelay(v) on a bound DiagnosedPublisher rebuilds
\* the entry around the endpoint bound at the call: endpoint and key are
\* the same before and after, the entry is a new one (no ticks) with
\* staleness bound v, and no other field of the wrapper changes.
C16_RebuildKeepsEndpoint ==
    [][(lastCall'.op = "pub.maxTimeDelay" /\ lastCall'.had /\ lastCall'.ok) =>
          LET p   == lastCall'.self
              old == CHOOSE e \in heap : e.id = pub[p].publisher
              new == CHOOSE e \in heap' : e.id = pub'[p].publisher
          IN  /\ pub'[p].publisher # Null
              /\ new.endpoint = old.endpoint
              /\ new.name = old.name
              /\ new.maxTimeDelay = lastCall'.v
              /\ new.ticks = 0
              /\ pub'[p] = [pub[p] EXCEPT !.maxTimeDelay = lastCall'.v,
                                          !.publisher = pub'[p].publisher]
              /\ sent' = sent]_vars

\* maxTimeDelay(v) with a new value on a publisher that had published
C16_Witness ==
    /\ lastCall.op = "pub.maxTimeDelay"
    /\ lastCall.had
    /\ lastCall.ok
    /\ lastCall.v # lastCall.prev
    /\ sent[lastCall.self] >= 1
    /\ publisher(World(lastCall.self), lastCall.self) = lastCall.name

\* C17: with delivery serialized with the other calls (every handler is one
\* step) and the subscription made by a subscribe call, a delivered message
\* ticks once the live entry keyed by the subscribed topic, and changes
\* neither the registry's tasks nor the wrapper.
C17_DeliveryTicksOnce ==
    [][(lastCall'.op = "onMessage" /\ sub[lastCall'.self].via = "subscribe") =>
          LET s   == lastCall'.self
              old == CHOOSE e \in heap : e.id = sub[s].diagnostic
          IN  /\ sub[s].diagnostic # Null
              /\ old.name = SubscriberName(sub[s].topic)
              /\ \E i \in DOMAIN tasks : tasks[i].id = old.id /\ tasks[i].name = old.name
              /\ heap' = (heap \ {old}) \cup {[old EXCEPT !.ticks = @ + 1]}
              /\ Events(trace') = << <<"tick", old.name>> >>
              /\ tasks' = tasks
              /\ balance' = balance
              /\ sub' = sub
              /\ fault' = fault]_vars

\* a message was delivered to a subscriber subscribed by subscribe(...)
\* whose entry had been rebuilt by maxTimeDelay
C17_Witness ==
    /\ lastCall.op = "onMessage"
    /\ lastCall.had
    /\ sub[lastCall.self].via = "subscribe"
    /\ sub[lastCall.self].maxTimeDelay # DefaultMaxTimeDelay
    /\ Obj(World(lastCall.self), sub[lastCall.self].diagnostic).ticks = 1

\* C18: the staleness bound of an owned entry is the maxTimeDelay the
\* wrapper stores, for a DiagnosedSubscriber and for a DiagnosedPublisher,
\* also for a value set while no entry was owned.
C18_EntryBoundIsStored ==
    /\ \A s \in Subs :
          sub[s].diagnostic # Null =>
              Obj(World(s), sub[s].diagnostic).maxTimeDelay = sub[s].maxTimeDelay
    /\ \A p \in Pubs :
          pub[p].publisher # Null =>
              Obj(World(p), pub[p].publisher).maxTimeDelay = pub[p].maxTimeDelay

\* subscribe or bind on an object without an entry whose maxTimeDelay had
\* been set before
C18_Witness ==
    /\ lastCall.op \in {"subscribe", "bind"}
    /\ ~lastCall.had
    /\ lastCall.ok
    /\ \E e \in heap : e.by = lastCall.self /\ e.maxTimeDelay # DefaultMaxTimeDelay

\* C19: whenever a wrapper owns an entry, the minimum frequency the entry
\* is evaluated against is the minFreq the wrapper stores now, so a
\* minFrequency(v) call acts on the existing entry at once.
C19_EntryReadsStoredMinFreq ==
    /\ \A s \in Subs :
          sub[s].diagnostic # Null =>
              FreqRead(World(s), Obj(World(s), sub[s].diagnostic)) = {sub[s].minFreq}
    /\ \A p \in Pubs :
          (pub[p].life = "alive" /\ pub[p].publisher # Null) =>
              FreqRead(World(p), Obj(World(p), pub[p].publisher)) = {pub[p].minFreq}

\* C20: binding is monotone: a call on a bound DiagnosedPublisher in which
\* entry creation does not fail leaves it bound with exactly one entry in
\* the registry, unless the call is the destructor (then none is left); a
\* publish on a bound publisher is sent, not dropped.
C20_BindingMonotone ==
    [][(lastCall'.self \in Pubs /\ pub[lastCall'.self].publisher # Null /\ lastCall'.ok) =>
          LET p == lastCall'.self
          IN  IF lastCall'.op = "~Publisher"
              THEN tasks' = <<>> /\ pub'[p].publisher = Null
              ELSE /\ pub'[p].life = "alive"
                   /\ pub'[p].publisher # Null
                   /\ Len(tasks') = 1
                   /\ tasks'[1].id = pub'[p].publisher
                   /\ lastCall'.op = "publish" =>
                         /\ sent'[p] = sent[p] + 1
                         /\ Events(trace') = << <<"tick", tasks[1].name>>,
                                                <<"send", tasks[1].name>> >>]_vars

\* a publish that was sent by a publisher bound and reconfigured
C20_Witness ==
    /\ lastCall.op = "publish"
    /\ lastCall.had
    /\ sent[lastCall.self] = 1
    /\ pub[lastCall.self].maxTimeDelay # DefaultMaxTimeDelay
    /\ pub[lastCall.self].minFreq # DefaultMinFreq
    /\ Len(tasks) = 1

====
